---- MODULE Spec2Model ----
(***************************************************************************)
(* Model of pyod/models/cblof.py: the CBLOF detector.                      *)
(*                                                                         *)
(* The detector object is its attribute dictionary: a function whose       *)
(* domain is the set of attribute names that have been assigned.  Reading  *)
(* a name outside the domain is Python's AttributeError.                   *)
(*                                                                         *)
(* The fractions alpha and contamination are held in tenths (9 is 0.9, 10  *)
(* is 1.0); beta is held in units.                                         *)
(***************************************************************************)
EXTENDS Integers, Sequences, FiniteSets

\* det        the detector's attribute dictionary
\* lastOp     the method that ran last
\* X          the matrix passed to that call
\* res        its outcome
\* everFitted history: some call to fit has returned without raising
VARIABLES det, lastOp, X, res, everFitted

vars == <<det, lastOp, X, res, everFitted>>

----------------------------------------------------------------------------
(* Bounds of the model *)

MaxRows == 2
MaxCols == 2

----------------------------------------------------------------------------
(* Values *)

Tenths(n) == 10 * n

None == [name |-> "None", conforms |-> FALSE]

MAX_INT == 2147483647

\* The clustering algorithms a caller may hand to the constructor: none, one
\* that satisfies the scikit-learn estimator contract, one that does not.
Algorithms ==
  { None,
    [name |-> "KMeans", conforms |-> TRUE],
    [name |-> "NotAnEstimator", conforms |-> FALSE] }

AlphaValues == {-5, 0, 5, 9, 10, 15}

BetaValues == {-1, 0, 1, 5}

Defects == {"none", "nan", "inf", "not2d", "non_numeric"}

Matrices ==
  [n_samples : 1..MaxRows, n_features : 1..MaxCols, defect : Defects]

NoMatrix == [n_samples |-> 0, n_features |-> 0, defect |-> "none"]

\* y = None is the empty tuple; otherwise a vector of class labels.
NoneY == << >>

Targets == {NoneY, <<0, 0>>, <<0, 1>>}

\* The distance vectors the clustering library can report for the rows of M:
\* each row is near its cluster centre (0) or away from it (1).
Distances(M) ==
  IF M.defect = "none" THEN [1..M.n_samples -> {0, 1}] ELSE {<< >>}

----------------------------------------------------------------------------
(* Attribute access *)

HasAttr(d, a) == a \in DOMAIN d

SetAttr(d, a, v) == [x \in (DOMAIN d) \cup {a} |-> IF x = a THEN v ELSE d[x]]

\* The outcome of a call: the detector afterwards, the error raised ("none"
\* when the call returned), the parameter name the error message carries, the
\* source line of the raising statement (0 when the call returned), whether
\* the clustering estimator's fit was invoked, the value returned.
Return(d, estFit, v) ==
  [det |-> d, err |-> "none", param |-> "", line |-> 0,
   estFit |-> estFit, value |-> v]

Raise(d, e, p, l, estFit) ==
  [det |-> d, err |-> e, param |-> p, line |-> l,
   estFit |-> estFit, value |-> << >>]

----------------------------------------------------------------------------
(* Collaborators *)

\* sklearn.utils.validation.check_array: accepts a two-dimensional numeric
\* matrix without NaN or infinity.
check_array(M) == M.defect = "none"

\* sklearn.utils.validation.check_is_fitted(self, attributes): every listed
\* attribute exists.
check_is_fitted(d, attributes) == \A a \in attributes : HasAttr(d, a)

\* sklearn.utils.estimator_checks.check_estimator
check_estimator(e) == e.conforms

MiniBatchKMeans(n_jobs) ==
  [name |-> "MiniBatchKMeans", conforms |-> TRUE]

\* pyod.utils.utility.check_parameter: TRUE when param lies in the range.
check_parameter(param, low, high, include_left, include_right) ==
  /\ IF include_left THEN param >= low ELSE param > low
  /\ IF include_right THEN param <= high ELSE param < high

\* BaseDetector.__init__
BaseDetector_init(contamination) ==
  [x \in {"contamination"} |-> contamination]

\* BaseDetector._set_n_classes
_set_n_classes(d, t) ==
  SetAttr(d, "_classes",
          IF t = NoneY THEN 2 ELSE Cardinality({t[i] : i \in DOMAIN t}))

\* BaseDetector._process_decision_scores: the threshold is the score at the
\* (1 - contamination) percentile, the labels mark the scores above it.
_process_decision_scores(d) ==
  LET scores == d["decision_scores_"]
      n == Len(scores)
      k == n - ((n * d["contamination"]) \div 10)
      AtMost(v) == Cardinality({i \in 1..n : scores[i] <= v})
      thr == CHOOSE v \in {scores[i] : i \in 1..n} :
               /\ AtMost(v) >= k
               /\ \A w \in {scores[i] : i \in 1..n} : AtMost(w) >= k => v <= w
      d1 == SetAttr(d, "threshold_", thr)
  IN SetAttr(d1, "labels_", [i \in 1..n |-> IF scores[i] > thr THEN 1 ELSE 0])

----------------------------------------------------------------------------
(* CBLOF *)

__init__(algorithm, alpha, beta, contamination, n_jobs, random_state) ==
  LET d0 == BaseDetector_init(contamination)
      d1 == SetAttr(d0, "algorithm", algorithm)
      d2 == SetAttr(d1, "alpha", alpha)
      d3 == SetAttr(d2, "beta", beta)
      d4 == SetAttr(d3, "n_jobs", n_jobs)
  IN SetAttr(d4, "random_state", random_state)

\* Variant: the upper end of alpha's range is included.
check_alpha_closed(d) ==
  check_parameter(d["alpha"], 0, Tenths(1), FALSE, TRUE)

\* check_parameter(self.alpha, 0, 1, ..., include_left=False,
\*                 include_right=False)
check_alpha(d) ==
  check_parameter(d["alpha"], 0, Tenths(1), FALSE, FALSE)

\* Variant: the lower end of beta's range is included.
check_beta_closed(d) ==
  check_parameter(d["beta"], 0, MAX_INT, TRUE, FALSE)

\* check_parameter(self.beta, 0, ..., include_left=False, include_right=False)
check_beta(d) ==
  check_parameter(d["beta"], 0, MAX_INT, FALSE, FALSE)

\* Variant: beta is checked before alpha.
_validate_estimator_beta_first(d, default) ==
  IF ~check_beta(d)
    THEN Raise(d, "InvalidParameter", "alpha", 123, FALSE)
  ELSE IF ~check_alpha(d)
    THEN Raise(d, "InvalidParameter", "alpha", 120, FALSE)
  ELSE IF ~HasAttr(d, "base_estimator")
    THEN Raise(d, "AttributeError", "base_estimator", 126, FALSE)
  ELSE LET d1 == SetAttr(d, "base_estimator_",
                         IF d["base_estimator"] # None
                           THEN d["base_estimator"] ELSE default)
       IN IF d1["base_estimator_"] = None
            THEN Raise(d1, "MissingAlgorithm", "", 132, FALSE)
          ELSE IF ~check_estimator(d1["base_estimator_"])
            THEN Raise(d1, "InvalidEstimator", "", 134, FALSE)
          ELSE Return(d1, FALSE, << >>)

_validate_estimator(d, default) ==
  IF ~check_alpha(d)
    THEN Raise(d, "InvalidParameter", "alpha", 120, FALSE)
  ELSE IF ~check_beta(d)
    THEN Raise(d, "InvalidParameter", "alpha", 123, FALSE)
  ELSE IF ~HasAttr(d, "base_estimator")
    THEN Raise(d, "AttributeError", "base_estimator", 126, FALSE)
  ELSE LET d1 == SetAttr(d, "base_estimator_",
                         IF d["base_estimator"] # None
                           THEN d["base_estimator"] ELSE default)
       IN IF d1["base_estimator_"] = None
            THEN Raise(d1, "MissingAlgorithm", "", 132, FALSE)
          ELSE IF ~check_estimator(d1["base_estimator_"])
            THEN Raise(d1, "InvalidEstimator", "", 134, FALSE)
          ELSE Return(d1, FALSE, << >>)

\* Variant: the class count is recorded before the matrix is validated.
fit_classes_first(d, M, t, clusterOk) ==
  LET d1 == _set_n_classes(d, t)
  IN IF ~check_array(M)
       THEN Raise(d1, "MalformedInput", "X", 95, FALSE)
     ELSE LET v == _validate_estimator(d1, MiniBatchKMeans(d1["n_jobs"]))
          IN IF v.err # "none" THEN v
             ELSE IF ~clusterOk
               THEN Raise(v.det, "ClusteringError", "", 102, TRUE)
             ELSE IF ~HasAttr(v.det, "detector_")
               THEN Raise(v.det, "AttributeError", "detector_", 105, TRUE)
             ELSE LET d2 == SetAttr(v.det, "decision_scores_",
                                    v.det["detector_"].dist_)
                  IN Return(_process_decision_scores(d2), TRUE, << >>)

fit(d, M, t, clusterOk) ==
  IF ~check_array(M)
    THEN Raise(d, "MalformedInput", "X", 95, FALSE)
  ELSE LET d1 == _set_n_classes(d, t)
           v == _validate_estimator(d1, MiniBatchKMeans(d1["n_jobs"]))
       IN IF v.err # "none" THEN v
          ELSE IF ~clusterOk
            THEN Raise(v.det, "ClusteringError", "", 102, TRUE)
          ELSE IF ~HasAttr(v.det, "detector_")
            THEN Raise(v.det, "AttributeError", "detector_", 105, TRUE)
          ELSE LET d2 == SetAttr(v.det, "decision_scores_",
                                 v.det["detector_"].dist_)
               IN Return(_process_decision_scores(d2), TRUE, << >>)

\* Variant: the fitted check is missing.
decision_function_unchecked(d, M, dist) ==
  IF ~check_array(M)
    THEN Raise(d, "MalformedInput", "X", 111, FALSE)
  ELSE IF ~HasAttr(d, "detector_")
    THEN Raise(d, "AttributeError", "detector_", 114, FALSE)
  ELSE Return(d, FALSE, dist)

\* Variant: the call records the class count, as fit does.
decision_function_recording(d, M, dist) ==
  IF ~check_is_fitted(d, {"decision_scores_", "threshold_", "labels_"})
    THEN Raise(_set_n_classes(d, NoneY), "NotFitted", "", 110, FALSE)
  ELSE IF ~check_array(M)
    THEN Raise(d, "MalformedInput", "X", 111, FALSE)
  ELSE IF ~HasAttr(d, "detector_")
    THEN Raise(d, "AttributeError", "detector_", 114, FALSE)
  ELSE Return(d, FALSE, dist)

decision_function(d, M, dist) ==
  IF ~check_is_fitted(d, {"decision_scores_", "threshold_", "labels_"})
    THEN Raise(d, "NotFitted", "", 110, FALSE)
  ELSE IF ~check_array(M)
    THEN Raise(d, "MalformedInput", "X", 111, FALSE)
  ELSE IF ~HasAttr(d, "detector_")
    THEN Raise(d, "AttributeError", "detector_", 114, FALSE)
  ELSE Return(d, FALSE, dist)

----------------------------------------------------------------------------
(* State machine: one detector, constructed, then any sequence of calls *)

Init ==
  /\ \E algorithm \in Algorithms, alpha \in AlphaValues, beta \in BetaValues :
       det = __init__(algorithm, alpha, beta, 1, 1, None)
  /\ lastOp = "__init__"
  /\ X = NoMatrix
  /\ res = Return(det, FALSE, << >>)
  /\ everFitted = FALSE

Fit ==
  \E M \in Matrices :
    \E t \in Targets, clusterOk \in BOOLEAN :
      /\ res' = fit(det, M, t, clusterOk)
      /\ det' = res'.det
      /\ lastOp' = "fit"
      /\ X' = M
      /\ everFitted' = (everFitted \/ res'.err = "none")

DecisionFunction ==
  \E M \in Matrices :
    \E dist \in Distances(M) :
      /\ res' = decision_function(det, M, dist)
      /\ det' = res'.det
      /\ lastOp' = "decision_function"
      /\ X' = M
      /\ UNCHANGED everFitted

Next == Fit \/ DecisionFunction

Spec == Init /\ [][Next]_vars

----------------------------------------------------------------------------
(* The ranges the documentation gives for the hyperparameters *)

AlphaInRange(d) == 0 < d["alpha"] /\ d["alpha"] < Tenths(1)

BetaInRange(d) == d["beta"] > 0

\* A call to fit whose matrix is well formed
FitOnWellFormed == lastOp = "fit" /\ check_array(X)

----------------------------------------------------------------------------
\* C1: for a well-formed X and an alpha that is not strictly inside (0,1)
\* (alpha <= 0 or alpha >= 1), fit fails with an invalid-parameter error,
\* whatever beta and the configured algorithm are.
C1_AlphaOutOfRangeRejected ==
  (FitOnWellFormed /\ ~AlphaInRange(det)) => res.err = "InvalidParameter"

\* fit was called on a well-formed matrix with alpha = 1, beta in range and
\* an algorithm supplied, and raised the invalid-parameter error.
C1_Witness ==
  /\ FitOnWellFormed
  /\ det["alpha"] = Tenths(1)
  /\ BetaInRange(det)
  /\ det["algorithm"] # None
  /\ res.err = "InvalidParameter"

\* C2: for a well-formed X, alpha inside (0,1) and beta <= 0 (0 included),
\* fit fails with an invalid-parameter error.
C2_BetaOutOfRangeRejected ==
  (FitOnWellFormed /\ AlphaInRange(det) /\ det["beta"] <= 0)
    => res.err = "InvalidParameter"

\* fit was called on a well-formed matrix with alpha in range and beta = 0,
\* and raised the invalid-parameter error.
C2_Witness ==
  /\ FitOnWellFormed
  /\ AlphaInRange(det)
  /\ det["beta"] = 0
  /\ res.err = "InvalidParameter"

\* C3: as long as no call to fit has completed successfully, a call to
\* decision_function fails with the not-fitted error and returns no scores.
C3_ScoreBeforeFitNotFitted ==
  (lastOp = "decision_function" /\ ~everFitted)
    => (res.err = "NotFitted" /\ res.value = << >>)

\* decision_function was called after a failed fit (which had already recorded
\* the class count) and raised the not-fitted error.
C3_Witness ==
  /\ lastOp = "decision_function"
  /\ ~everFitted
  /\ HasAttr(det, "_classes")
  /\ check_array(X)
  /\ res.err = "NotFitted"

\* C4: for a well-formed X with n rows, alpha in (0,1) and beta > 0, fit
\* completes without error and leaves decision_scores_ with exactly n
\* entries, each non-negative, with the default algorithm or a supplied one.
C4_ValidFitYieldsScores ==
  (FitOnWellFormed /\ AlphaInRange(det) /\ BetaInRange(det)
     /\ (det["algorithm"] = None \/ check_estimator(det["algorithm"])))
    => /\ res.err = "none"
       /\ HasAttr(det, "decision_scores_")
       /\ Len(det["decision_scores_"]) = X.n_samples
       /\ \A i \in 1..X.n_samples : det["decision_scores_"][i] >= 0

\* C5: the clustering estimator fit validates is the algorithm supplied to
\* the constructor when there is one, and the default MiniBatchKMeans
\* otherwise.
C5_EstimatorSelection ==
  (FitOnWellFormed /\ AlphaInRange(det) /\ BetaInRange(det))
    => /\ HasAttr(det, "base_estimator_")
       /\ det["base_estimator_"] =
            (IF det["algorithm"] # None
               THEN det["algorithm"] ELSE MiniBatchKMeans(det["n_jobs"]))

C7_ScoreHasNoSideEffects ==
  [][/\ lastOp' = "decision_function" => det' = det
     /\ (lastOp = "decision_function" /\ lastOp' = "decision_function"
           /\ X' = X) => res'.err = res.err]_vars

\* decision_function ran on a detector that carries state from an earlier
\* fit call.
C7_Witness ==
  /\ lastOp = "decision_function"
  /\ HasAttr(det, "_classes")
  /\ det["_classes"] = 2
  /\ res.err # "none"

FirstInvalid ==
  IF ~check_array(X) THEN 95
  ELSE IF ~AlphaInRange(det) THEN 120
  ELSE IF ~BetaInRange(det) THEN 123
  ELSE 0

\* C9: fit validates the matrix, then alpha, then beta, then the estimator,
\* and stops at the first failure: a malformed X is reported as malformed
\* input even when alpha or beta is invalid too, an invalid alpha is reported
\* before an invalid beta, and the clustering estimator's fit is not invoked
\* when X, alpha, beta or the estimator is invalid.
C9_FitStepsInOrder ==
  lastOp = "fit" =>
    /\ FirstInvalid # 0 => res.line = FirstInvalid
    /\ FirstInvalid = 0 => res.line \notin {95, 120, 123}
    /\ res.line = 95 => res.err = "MalformedInput"
    /\ res.line \in {120, 123} => res.err = "InvalidParameter"
    /\ res.err \in {"MalformedInput", "InvalidParameter",
                    "MissingAlgorithm", "InvalidEstimator"} => ~res.estFit

\* fit was called with alpha and beta both out of range and stopped at the
\* alpha check.
C9_Witness ==
  /\ FitOnWellFormed
  /\ ~AlphaInRange(det)
  /\ ~BetaInRange(det)
  /\ res.line = 120
  /\ ~res.estFit

\* C10: the invalid-parameter error names the parameter that is out of
\* range: 'alpha' when alpha is outside (0,1), 'beta' when alpha is valid and
\* beta <= 0.
C10_ErrorNamesParameter ==
  (lastOp = "fit" /\ res.err = "InvalidParameter")
    => res.param = (IF ~AlphaInRange(det) THEN "alpha" ELSE "beta")

====
